---- MODULE Spec2Model ----
(***************************************************************************)
(* Model of the Prompt Generator launcher extension                        *)
(* (prompt-generator-launcher/src/extension.ts): the workspace-root        *)
(* resolution of getWorkspaceRootFsPath, the spawn of launchPrompt and the *)
(* two command handlers registered by activate.                            *)
(*                                                                         *)
(* A path or uri is the sequence of its segments; <<>> stands for          *)
(* `undefined` (no hint, no active editor, no resolved root).              *)
(***************************************************************************)
EXTENDS Naturals, Sequences, FiniteSets, Bags

VARIABLES
  workspaceFolders,  \* vscode.workspace.workspaceFolders, owned by the editor
  pending,           \* bag of the `folders` captured by the handlers awaiting the quick pick
  nextTickQueue,     \* 'error' emissions of spawned children queued for the next tick
  ev                 \* what the last step did: the invocation's inputs and its effects

vars == << workspaceFolders, pending, nextTickQueue, ev >>

\* Number of command invocations that may be suspended at the quick pick at once.
MaxPending == 2

\* `undefined`: an absent uri / an absent result.
NoUri == <<>>

\* The absolute path of the binary (extension.ts line 7).
HARDCODED_PROMPT_BINARY == "/home/andrew-peterson/code/prompt/target/release/prompt"

\* Directories the editor may have open as workspace folders: a nested pair
\* (/ws/a, /ws/a/app) and two folders with the same base name (app).
FolderPaths == { <<"ws", "a">>, <<"ws", "a", "app">>, <<"ws", "b", "app">> }

\* Uris a command may be invoked on, or the active editor may show: a file in
\* each folder, a folder itself, and a file outside every folder.
Uris ==
  { <<"ws", "a", "f">>, <<"ws", "a", "app", "f">>, <<"ws", "b", "app", "f">>,
    <<"ws", "a", "app">>, <<"tmp", "f">> }

\* Every value of vscode.workspace.workspaceFolders: a list of distinct folders
\* (the empty list stands for both `undefined` and []).
FolderLists ==
  UNION { { s \in [1..n -> FolderPaths] : \A i, j \in 1..n : s[i] = s[j] => i = j }
          : n \in 0..Cardinality(FolderPaths) }

\* WorkspaceFolder.name: the base name of the folder's path.
Name(f) == f[Len(f)]

\* uri lies at or below folder.
IsInside(folder, uri) ==
  /\ Len(folder) <= Len(uri)
  /\ SubSeq(uri, 1, Len(folder)) = folder

\* vscode.workspace.getWorkspaceFolder(uri): the innermost open folder that
\* contains uri, or undefined.
getWorkspaceFolder(folders, uri) ==
  LET containing == { i \in 1..Len(folders) : IsInside(folders[i], uri) }
  IN  IF containing = {} THEN NoUri
      ELSE folders[CHOOSE i \in containing :
                     \A j \in containing : Len(folders[j]) <= Len(folders[i])]

\* Array.prototype.find: of the indices whose element passes the test, the
\* first one; 0 when there is none.
FirstIndex(hits) ==
  IF hits = {} THEN 0 ELSE CHOOSE i \in hits : \A j \in hits : i <= j

(***************************************************************************)
(* getWorkspaceRootFsPath (extension.ts lines 13-46), one rule at a time.  *)
(***************************************************************************)

\* Variant: the empty workspace is not reported.
noWorkspaceErrors_silent(folders) == <<>>

\* Lines 15-18: the error shown when no folder is open.
noWorkspaceErrors(folders) ==
  IF Len(folders) = 0 THEN << "No workspace folder is open." >> ELSE <<>>

\* Variant: the hint is not looked at.
hintRule_ignored(folders, uriHint) == NoUri

\* Variant: the first listed folder that contains the hint, in list order.
hintRule_firstMatch(folders, uriHint) ==
  IF uriHint = NoUri THEN NoUri
  ELSE LET i == FirstIndex({ k \in 1..Len(folders) : IsInside(folders[k], uriHint) })
       IN  IF i = 0 THEN NoUri ELSE folders[i]

\* Lines 21-24: the workspace folder that contains the uri the command was
\* invoked on.
hintRule(folders, uriHint) ==
  IF uriHint # NoUri THEN getWorkspaceFolder(folders, uriHint) ELSE NoUri

\* Variant: no special case for the single-root workspace.
singleRootRule_missing(folders) == NoUri

\* Lines 27-29: a single-root workspace resolves to its root.
singleRootRule(folders) ==
  IF Len(folders) = 1 THEN folders[1] ELSE NoUri

\* Lines 32-36: the workspace folder that contains the active editor's document.
activeEditorRule(folders, activeUri) ==
  IF activeUri # NoUri THEN getWorkspaceFolder(folders, activeUri) ELSE NoUri

\* Line 40: the quick pick items, one per folder, in the folders' order.
quickPickItems(folders) ==
  [ i \in 1..Len(folders) |-> [label |-> Name(folders[i]), description |-> folders[i]] ]

\* Lines 13-38, up to the await: either a settled result (fsPath, with the
\* error messages shown on the way) or the quick pick to show.
getWorkspaceRootFsPath(folders, uriHint, activeUri) ==
  IF Len(folders) = 0
    THEN [await |-> FALSE, fsPath |-> NoUri, errors |-> noWorkspaceErrors(folders),
          items |-> <<>>]
  ELSE IF hintRule(folders, uriHint) # NoUri
    THEN [await |-> FALSE, fsPath |-> hintRule(folders, uriHint), errors |-> <<>>,
          items |-> <<>>]
  ELSE IF singleRootRule(folders) # NoUri
    THEN [await |-> FALSE, fsPath |-> singleRootRule(folders), errors |-> <<>>,
          items |-> <<>>]
  ELSE IF activeEditorRule(folders, activeUri) # NoUri
    THEN [await |-> FALSE, fsPath |-> activeEditorRule(folders, activeUri),
          errors |-> <<>>, items |-> <<>>]
  ELSE [await |-> TRUE, fsPath |-> NoUri, errors |-> <<>>,
        items |-> quickPickItems(folders)]

\* The answers showQuickPick can resolve to: 0 for a dismissal (undefined),
\* otherwise the index of the item the user selected.
PickAnswers(folders) == 0..Len(folders)

\* Variant: the folder is looked up by comparing its name with the item's
\* description (the path) instead of its label.
chosenFsPath_wrongField(folders, pick) ==
  IF pick = 0 THEN NoUri
  ELSE LET item == quickPickItems(folders)[pick]
           i == FirstIndex({ k \in 1..Len(folders) : << Name(folders[k]) >> = item.description })
       IN  IF i = 0 THEN NoUri ELSE folders[i]

\* Variant: the folder is looked up in the workspace folders as they are when
\* the quick pick is answered, not in the list captured before the await.
chosenFsPath_reread(folders, pick) ==
  IF pick = 0 THEN NoUri
  ELSE LET item == quickPickItems(folders)[pick]
           i == FirstIndex({ k \in 1..Len(workspaceFolders) :
                               Name(workspaceFolders[k]) = item.label })
       IN  IF i = 0 THEN NoUri ELSE workspaceFolders[i]

\* Lines 43-45, after the await: undefined on a dismissal, otherwise the path
\* of the first captured folder whose name equals the picked item's label.
chosenFsPath(folders, pick) ==
  IF pick = 0 THEN NoUri
  ELSE LET item == quickPickItems(folders)[pick]
           i == FirstIndex({ k \in 1..Len(folders) : Name(folders[k]) = item.label })
       IN  IF i = 0 THEN NoUri ELSE folders[i]

(***************************************************************************)
(* launchPrompt (extension.ts lines 49-71).                                *)
(***************************************************************************)

\* What child_process.spawn can do with an existing path: start the process;
\* throw; or return a child that emits 'error' on the next tick (ENOENT,
\* EACCES, ... : binary gone or not executable, working directory missing).
SpawnOutcomes == { "ok", "throws", "errorEvent" }

BinaryNotFound == "Prompt binary not found at: HARDCODED_PROMPT_BINARY. Update HARDCODED_PROMPT_BINARY in extension.ts."
LaunchFailed == "Failed to start Prompt Generator. Ensure it is executable (chmod +x)."

\* Variant: the spawn options carry no working directory.
spawnCall_noCwd(folderPath) ==
  [ command |-> HARDCODED_PROMPT_BINARY,
    args    |-> << folderPath >>,
    options |-> [detached |-> TRUE, stdio |-> "ignore", cwd |-> NoUri] ]

\* Lines 59-63: the spawn call.
spawnCall(folderPath) ==
  [ command |-> HARDCODED_PROMPT_BINARY,
    args    |-> << folderPath >>,
    options |-> [detached |-> TRUE, stdio |-> "ignore", cwd |-> folderPath] ]

\* Variant: the binary's existence is not checked before the spawn.
launchPrompt_unchecked(folderPath, exists, outcome) ==
  [ errors   |-> IF exists /\ outcome = "throws" THEN << LaunchFailed >> ELSE <<>>,
    spawns   |-> << spawnCall(folderPath) >>,
    children |-> IF exists /\ outcome = "throws" THEN <<>>
                 ELSE << [running |-> exists /\ outcome = "ok", unref |-> TRUE] >>,
    queued   |-> IF exists /\ outcome = "ok" THEN <<>>
                 ELSE IF exists /\ outcome = "throws" THEN <<>> ELSE << "error" >> ]

\* Lines 49-71. exists: what fs.existsSync answers; outcome: what spawn does.
\* errors: the error messages shown; spawns: the spawn calls made; children:
\* the child handles obtained (running: the process was started); queued: the
\* 'error' emissions left for the next tick.
launchPrompt(folderPath, exists, outcome) ==
  IF ~exists
    THEN [errors |-> << BinaryNotFound >>, spawns |-> <<>>, children |-> <<>>,
          queued |-> <<>>]
  ELSE IF outcome = "throws"
    THEN [errors |-> << LaunchFailed >>, spawns |-> << spawnCall(folderPath) >>,
          children |-> <<>>, queued |-> <<>>]
  ELSE [errors |-> <<>>, spawns |-> << spawnCall(folderPath) >>,
        children |-> << [running |-> outcome = "ok", unref |-> TRUE] >>,
        queued |-> IF outcome = "errorEvent" THEN << "error" >> ELSE <<>>]

(***************************************************************************)
(* The state machine: the command handlers of activate (lines 87-98), the  *)
(* user's answer to the quick pick, the next-tick 'error' emission, and    *)
(* the editor changing its workspace folders.                              *)
(***************************************************************************)

\* The record of a step, before any effect is entered.
NoEvent(kind) ==
  [ kind |-> kind, cmd |-> "none", uriHint |-> NoUri, activeUri |-> NoUri,
    folders |-> <<>>, suspended |-> FALSE, items |-> <<>>, pick |-> 0,
    fsPath |-> NoUri, errors |-> <<>>, launches |-> <<>>,
    binaryExists |-> FALSE, spawnOutcome |-> "notAttempted", spawns |-> <<>>,
    children |-> <<>>, uncaught |-> FALSE ]

Init ==
  /\ workspaceFolders \in FolderLists
  /\ pending = EmptyBag
  /\ nextTickQueue = <<>>
  /\ ev = NoEvent("idle")

\* Lines 89-90 and 96-97: `if (!fsPath) return; launchPrompt(fsPath);`
Finish(e, fsPath, errors) ==
  IF fsPath = NoUri
    THEN /\ ev' = [e EXCEPT !.errors = errors]
         /\ nextTickQueue' = <<>>
    ELSE \E exists \in BOOLEAN :
           \E outcome \in (IF exists THEN SpawnOutcomes ELSE {"notAttempted"}) :
             LET l == launchPrompt(fsPath, exists, outcome)
             IN  /\ ev' = [e EXCEPT !.fsPath = fsPath,
                                    !.errors = errors \o l.errors,
                                    !.launches = << fsPath >>,
                                    !.binaryExists = exists,
                                    !.spawnOutcome = outcome,
                                    !.spawns = l.spawns,
                                    !.children = l.children]
                 /\ nextTickQueue' = l.queued

\* A command handler, from its invocation to its return or to the await.
Command(cmd, uriHint) ==
  /\ ev.kind = "idle"
  /\ \E activeUri \in Uris \cup {NoUri} :
       LET r == getWorkspaceRootFsPath(workspaceFolders, uriHint, activeUri)
           e == [NoEvent("invoke") EXCEPT !.cmd = cmd, !.uriHint = uriHint,
                                          !.activeUri = activeUri,
                                          !.folders = workspaceFolders,
                                          !.items = r.items,
                                          !.suspended = r.await]
       IN  IF r.await
             THEN /\ BagCardinality(pending) < MaxPending
                  /\ pending' = pending (+) SetToBag({workspaceFolders})
                  /\ ev' = e
                  /\ nextTickQueue' = <<>>
             ELSE /\ pending' = pending
                  /\ Finish(e, r.fsPath, r.errors)
  /\ UNCHANGED workspaceFolders

\* Lines 87-91: promptGenerator.open, invoked with or without a uri.
openCmd == \E uri \in Uris \cup {NoUri} : Command("promptGenerator.open", uri)

\* Lines 94-98: promptGenerator.openHere, never given a uri.
openHereCmd == Command("promptGenerator.openHere", NoUri)

\* Lines 39-45 and 89-90: the user answers the quick pick of a suspended
\* handler, which resumes and runs to its return.
QuickPickAnswered ==
  /\ ev.kind = "idle"
  /\ \E folders \in BagToSet(pending) :
       /\ \E pick \in PickAnswers(folders) :
            LET e == [NoEvent("resume") EXCEPT !.folders = folders,
                                               !.items = quickPickItems(folders),
                                               !.pick = pick]
            IN  Finish(e, chosenFsPath(folders, pick), <<>>)
       /\ pending' = pending (-) SetToBag({folders})
  /\ UNCHANGED workspaceFolders

\* Line 64: the child is only unref'ed, no 'error' listener is attached; the
\* queued emission runs on the next tick, before any other callback, and an
\* 'error' with no listener is thrown as an uncaught exception.
ChildErrorEvent ==
  /\ nextTickQueue # <<>>
  /\ nextTickQueue' = Tail(nextTickQueue)
  /\ ev' = [ev EXCEPT !.uncaught = TRUE]
  /\ UNCHANGED << workspaceFolders, pending >>

\* Lines 88-91 and 95-98: the handler has returned, or has yielded at the
\* await, and control is back with the editor's event loop.
ControlReturned ==
  /\ ev.kind # "idle"
  /\ nextTickQueue = <<>>
  /\ ev' = NoEvent("idle")
  /\ UNCHANGED << workspaceFolders, pending, nextTickQueue >>

\* The editor (the user, another extension) changes the open folders.
WorkspaceFoldersChanged ==
  /\ ev.kind = "idle"
  /\ workspaceFolders' \in FolderLists \ {workspaceFolders}
  /\ ev' = NoEvent("idle")
  /\ UNCHANGED << pending, nextTickQueue >>

Next ==
  \/ openCmd
  \/ openHereCmd
  \/ QuickPickAnswered
  \/ ChildErrorEvent
  \/ ControlReturned
  \/ WorkspaceFoldersChanged

Spec == Init /\ [][Next]_vars

(***************************************************************************)
(* Properties.  ev describes the invocation the last step belonged to:     *)
(* kind "invoke" for a handler run from its start, "resume" for a handler  *)
(* resumed by the quick pick's answer, "idle" otherwise.                   *)
(***************************************************************************)

\* The folders of a list that contain uri.
Containing(folders, uri) == { i \in 1..Len(folders) : IsInside(folders[i], uri) }

\* The last step ran a handler to its return.
Returned == ev.kind \in {"invoke", "resume"} /\ ~ev.suspended

\* Child processes the invocation has started.
Started == { i \in 1..Len(ev.children) : ev.children[i].running }

\* C1: an invocation that finds no open workspace folder shows the
\* "no workspace" error, resolves to nothing, shows no quick pick and neither
\* calls the launcher nor spawns anything.
C1_NoWorkspaceOpen ==
  (ev.kind = "invoke" /\ Len(ev.folders) = 0) =>
     /\ ev.errors = << "No workspace folder is open." >>
     /\ ev.fsPath = NoUri
     /\ ~ev.suspended /\ ev.items = <<>>
     /\ ev.launches = <<>> /\ ev.spawns = <<>> /\ ev.children = <<>>
     /\ nextTickQueue = <<>>

C1_Witness ==
  /\ ev.kind = "invoke" /\ Len(ev.folders) = 0
  /\ ev.cmd = "promptGenerator.open" /\ ev.uriHint # NoUri /\ ev.activeUri # NoUri

\* C2: with exactly one open folder the invocation resolves to that folder,
\* whatever the hint and the active editor, and shows no quick pick.
C2_SingleRoot ==
  (ev.kind = "invoke" /\ Len(ev.folders) = 1) =>
     /\ ev.fsPath = ev.folders[1]
     /\ ~ev.suspended /\ ev.items = <<>>
     /\ ev.launches = << ev.folders[1] >>

C2_Witness ==
  /\ ev.kind = "invoke" /\ Len(ev.folders) = 1
  /\ ev.uriHint # NoUri /\ Containing(ev.folders, ev.uriHint) = {}
  /\ ev.activeUri # NoUri /\ Containing(ev.folders, ev.activeUri) = {}
  /\ ev.fsPath = ev.folders[1]

\* C3: with several open folders and a hint inside exactly one of them, the
\* invocation resolves to that folder without a quick pick, also when the
\* active editor's document lies in another open folder.
C3_HintInOneRoot ==
  (/\ ev.kind = "invoke" /\ Len(ev.folders) >= 2
   /\ ev.uriHint # NoUri
   /\ Cardinality(Containing(ev.folders, ev.uriHint)) = 1) =>
     /\ \E i \in Containing(ev.folders, ev.uriHint) : ev.fsPath = ev.folders[i]
     /\ ~ev.suspended /\ ev.items = <<>>

C3_Witness ==
  /\ ev.kind = "invoke" /\ Len(ev.folders) >= 2
  /\ ev.uriHint # NoUri
  /\ Cardinality(Containing(ev.folders, ev.uriHint)) = 1
  /\ ev.activeUri # NoUri
  /\ Containing(ev.folders, ev.activeUri) # {}
  /\ Containing(ev.folders, ev.activeUri) \cap Containing(ev.folders, ev.uriHint) = {}
  /\ ev.fsPath # NoUri

\* C4: when the hint lies inside two open folders, one nested in the other,
\* the invocation resolves to the nested (longer) one, never to the ancestor.
C4_LongestPrefix ==
  \A i, j \in 1..Len(ev.folders) :
    (/\ ev.kind = "invoke" /\ ev.uriHint # NoUri
     /\ i # j
     /\ IsInside(ev.folders[i], ev.folders[j])
     /\ IsInside(ev.folders[j], ev.uriHint)) =>
       /\ ev.fsPath # ev.folders[i]
       /\ ev.fsPath \in { ev.folders[k] : k \in Containing(ev.folders, ev.uriHint) }
       /\ \A k \in Containing(ev.folders, ev.uriHint) : Len(ev.folders[k]) <= Len(ev.fsPath)

C4_Witness ==
  /\ ev.kind = "invoke" /\ ev.uriHint # NoUri
  /\ Len(ev.folders) >= 2
  /\ IsInside(ev.folders[1], ev.folders[2])
  /\ IsInside(ev.folders[2], ev.uriHint)
  /\ ev.fsPath = ev.folders[2]

\* No rule but the quick pick applies: several folders, no hint inside an open
\* folder, no active document inside an open folder.
Ambiguous(folders, uriHint, activeUri) ==
  /\ Len(folders) >= 2
  /\ Containing(folders, uriHint) = {}
  /\ Containing(folders, activeUri) = {}

\* C5: in the ambiguous case the quick pick is shown with one item per open
\* folder, and the handler resumed by the answer resolves to exactly the
\* folder of the picked item, or to nothing on a dismissal.
C5_PromptReturnsPicked ==
  /\ (ev.kind = "invoke" /\ Ambiguous(ev.folders, ev.uriHint, ev.activeUri)) =>
        /\ ev.suspended
        /\ Len(ev.items) = Len(ev.folders)
        /\ \A i \in 1..Len(ev.folders) : ev.items[i].description = ev.folders[i]
  /\ (ev.kind = "resume") =>
        ev.fsPath = (IF ev.pick = 0 THEN NoUri ELSE ev.folders[ev.pick])

\* C6: a dismissed quick pick ends the invocation with no launcher call, no
\* spawn, no error message and nothing queued; and an invocation that saw at
\* least one open folder returns without calling the launcher only that way.
C6_DismissalOnlyCancellation ==
  /\ (ev.kind = "resume" /\ ev.pick = 0) =>
        /\ ev.fsPath = NoUri
        /\ ev.launches = <<>> /\ ev.spawns = <<>> /\ ev.children = <<>>
        /\ ev.errors = <<>>
        /\ nextTickQueue = <<>> /\ ~ev.uncaught
  /\ (Returned /\ Len(ev.folders) >= 1 /\ ev.launches = <<>>) =>
        (ev.kind = "resume" /\ ev.pick = 0)

C6_Witness ==
  /\ ev.kind = "resume" /\ ev.pick = 0
  /\ Len(ev.folders) >= 2
  /\ ev.launches = <<>>

\* C7 as stated: given a resolved root and an existing binary, one launcher
\* call starts exactly one process, spawned with the binary as command, the
\* root as sole argument and working directory, detached, stdio ignored.
C7_ExactlyOneProcess ==
  (Returned /\ ev.launches # <<>> /\ ev.binaryExists) =>
     /\ Cardinality(Started) = 1
     /\ ev.spawns = << [ command |-> HARDCODED_PROMPT_BINARY,
                         args    |-> << ev.launches[1] >>,
                         options |-> [detached |-> TRUE, stdio |-> "ignore",
                                      cwd |-> ev.launches[1]] ] >>

\* C7 amended: given a resolved root and an existing binary, one launcher call
\* makes exactly one spawn call (binary as command, root as sole argument and
\* working directory, detached, stdio ignored) and returns; exactly one
\* process is started, still running and unref'ed at the return, when the
\* operating system accepts the spawn, and none when it refuses.
C7_ExactlyOneSpawnCall ==
  (Returned /\ ev.launches # <<>> /\ ev.binaryExists) =>
     /\ ev.spawns = << [ command |-> HARDCODED_PROMPT_BINARY,
                         args    |-> << ev.launches[1] >>,
                         options |-> [detached |-> TRUE, stdio |-> "ignore",
                                      cwd |-> ev.launches[1]] ] >>
     /\ Len(ev.children) <= 1
     /\ \A i \in 1..Len(ev.children) : ev.children[i].unref
     /\ (ev.spawnOutcome = "ok") => Cardinality(Started) = 1
     /\ (ev.spawnOutcome # "ok") => Cardinality(Started) = 0

C7_Witness ==
  /\ Returned /\ ev.launches # <<>> /\ ev.binaryExists
  /\ ev.spawnOutcome = "ok"
  /\ Cardinality(Started) = 1

\* C8: when the binary does not exist, the launcher shows the one "binary not
\* found" message, which says how to fix the path, and spawns nothing.
C8_BinaryNotFound ==
  (Returned /\ ev.launches # <<>> /\ ~ev.binaryExists) =>
     /\ ev.errors = << BinaryNotFound >>
     /\ ev.spawns = <<>> /\ ev.children = <<>>
     /\ nextTickQueue = <<>>

C8_Witness ==
  /\ Returned /\ ev.launches # <<>> /\ ~ev.binaryExists
  /\ ev.errors = << BinaryNotFound >>

\* The invocation met a failure: no folder open, binary missing, or the spawn
\* failed (thrown by the call or delivered as the child's 'error').
Failed ==
  /\ Returned
  /\ \/ Len(ev.folders) = 0
     \/ ev.launches # <<>> /\ ~ev.binaryExists
     \/ ev.launches # <<>> /\ ev.spawnOutcome \in {"throws", "errorEvent"}

\* C9: every failure of an invocation ends, once nothing of it is left
\* queued, as exactly one error message and no uncaught exception.
C9_FailuresNotified ==
  /\ ~ev.uncaught
  /\ (Failed /\ nextTickQueue = <<>>) => Len(ev.errors) = 1

\* C10 as stated: the launcher is called at most once per invocation, with
\* the one resolved root, and that root is an open workspace folder when the
\* launcher gets it.
C10_LaunchedRootIsOpen ==
  (ev.kind \in {"invoke", "resume"}) =>
     /\ Len(ev.launches) <= 1
     /\ (ev.launches # <<>>) =>
           /\ ev.launches[1] = ev.fsPath
           /\ \E i \in 1..Len(workspaceFolders) : workspaceFolders[i] = ev.launches[1]

\* The resolution outcome and launcher call of one invocation: one root or
\* none, at most one launcher call, made with that root, which is one of the
\* folders the editor reported when the invocation began.
OneOutcome ==
  (ev.kind \in {"invoke", "resume"}) =>
     /\ Len(ev.launches) <= 1
     /\ (ev.suspended \/ ev.fsPath = NoUri) => ev.launches = <<>>
     /\ (ev.launches # <<>>) =>
           /\ ev.launches[1] = ev.fsPath
           /\ \E i \in 1..Len(ev.folders) : ev.folders[i] = ev.launches[1]

\* C10 amended: each invocation has one outcome and calls the launcher at
\* most once, with a root that was an open workspace folder when the
\* invocation began (it may have been closed while the quick pick was up);
\* and no step of a handler changes the workspace folders.
C10_LaunchedRootWasOpen ==
  /\ []OneOutcome
  /\ [][ev'.kind # "idle" => workspaceFolders' = workspaceFolders]_vars

C10_Witness ==
  /\ ev.kind = "resume" /\ ev.launches # <<>>
  /\ \A i \in 1..Len(workspaceFolders) : workspaceFolders[i] # ev.launches[1]
  /\ pending # EmptyBag

====
